---------------------------- MODULE Spec2Model ----------------------------
(***************************************************************************)
(* Raw handling of pasted content (blocks/api/raw-handling): the schema    *)
(* model, the tree filter engine, the schema sanitizer, the inline         *)
(* classifier, the embedded content reducer and rawHandler.                *)
(*                                                                         *)
(* A DOM node is a record [tag, attrs, class, text, kids]: tag is the      *)
(* lower-cased nodeName ("#text" for a text node), attrs the set of its    *)
(* attribute names other than class, class the sequence of tokens of its   *)
(* class attribute (<<>>: no class attribute), text the characters of a    *)
(* text node, kids the sequence of its child nodes.                        *)
(*                                                                         *)
(* A schema is a set of entries, one per key: [tag, attributes, classes,   *)
(* require, hasChildren, children, ref].  hasChildren says whether the     *)
(* entry has a children field; ref, when not "", says that the children    *)
(* field is the phrasing content schema without the key ref (the phrasing  *)
(* schema's entries refer to each other, see getPhrasingContentSchema).    *)
(***************************************************************************)
EXTENDS Integers, Sequences, FiniteSets, TLC

VARIABLES
    pc,          \* position of the call under way
    HTML,        \* the HTML argument, parsed: a sequence of nodes
    schema,      \* the schema argument
    inline,      \* the inline argument of removeInvalidHTML
    result,      \* what the call returned (or that it threw)
    again,       \* what a second removeInvalidHTML over result returned
    transforms,  \* the registered raw transforms, in registration order
    calls,       \* calls made so far
    tagName,     \* the tagName argument ("" when not given)
    doc,         \* the document of the piece being filtered: node id -> node
    stack,       \* the deepFilterNodeList calls under way, innermost last
    filters,     \* the filters argument of deepFilterNodeList
    visits,      \* what deepFilterNodeList has done so far, in order: the nodes
                 \* it reached and the filter turns it took
    mode,        \* the mode argument of rawHandler
    plainText,   \* the plainText argument of rawHandler
    canUserUseUnfilteredHTML,  \* the argument of that name of rawHandler
    pieces,      \* the pieces flatMap has still to go through
    blocks       \* the blocks flatMap has collected

vars == <<pc, HTML, schema, inline, result, again, transforms, calls, tagName,
          doc, stack, filters, visits, mode, plainText, canUserUseUnfilteredHTML,
          pieces, blocks>>

\* The variables of the tree filter engine.
engineVars == <<doc, stack, filters, visits>>
\* No piece is being filtered.
EngineIdle == doc = <<>> /\ stack = <<>> /\ filters = <<>> /\ visits = <<>>

\* The variables of a call of rawHandler.
handlerVars == <<mode, plainText, canUserUseUnfilteredHTML, pieces, blocks>>
\* No call of rawHandler is under way; the arguments have their defaults.
HandlerIdle ==
    /\ mode = "AUTO"
    /\ plainText = <<>>
    /\ canUserUseUnfilteredHTML = FALSE
    /\ pieces = <<>>
    /\ blocks = <<>>

(***************************************************************************)
(* Bounds                                                                  *)
(***************************************************************************)
\* Most nodes in a fragment handed to removeInvalidHTML.
MaxNodes == 3
\* Most raw transforms registered.
MaxTransforms == 3
\* Most calls of getBlockContentSchema over one registry.
MaxCalls == 2

(***************************************************************************)
(* Sequences and nodes                                                     *)
(***************************************************************************)
Range(s) == {s[i] : i \in 1..Len(s)}

TEXT_NODE == 3
ELEMENT_NODE == 1

Text(chars) ==
    [tag |-> "#text", attrs |-> {}, class |-> <<>>, text |-> chars, kids |-> <<>>]

Element(tag, attrs, class, kids) ==
    [tag |-> tag, attrs |-> attrs, class |-> class, text |-> <<>>, kids |-> kids]

\* String.prototype.toUpperCase, on the tag names the fragments use.
toUpperCase(tag) ==
    CASE tag = "br" -> "BR"
      [] tag = "img" -> "IMG"
      [] tag = "a" -> "A"
      [] tag = "p" -> "P"
      [] tag = "iframe" -> "IFRAME"
      [] tag = "figure" -> "FIGURE"
      [] tag = "strong" -> "STRONG"
      [] tag = "li" -> "LI"
      [] tag = "h1" -> "H1"
      [] tag = "div" -> "DIV"
      [] OTHER -> "OTHER"

\* node.nodeName: an element of an HTML document has its tag name in upper
\* case.
nodeName(node) ==
    IF node.tag \in {"#text", "#comment"} THEN node.tag ELSE toUpperCase(node.tag)

\* A comment node; its nodeType is neither TEXT_NODE nor ELEMENT_NODE.
Comment(chars) ==
    [tag |-> "#comment", attrs |-> {}, class |-> <<>>, text |-> chars, kids |-> <<>>]

nodeType(node) ==
    IF node.tag = "#text" THEN TEXT_NODE
    ELSE IF node.tag = "#comment" THEN 8 ELSE ELEMENT_NODE

\* String(node.nodeType), the key hasOwnProperty( node.nodeType ) looks up.
nodeTypeKey(node) ==
    IF node.tag = "#text" THEN "3" ELSE IF node.tag = "#comment" THEN "8" ELSE "1"

hasAttributes(node) == node.attrs # {} \/ node.class # <<>>

\* node.nodeValue.trim(): empty when every character is white space.
trim(chars) == SelectSeq(chars, LAMBDA c : c # " ")

RECURSIVE Descendants(_)
Descendants(node) ==
    UNION {{node.kids[i]} \cup Descendants(node.kids[i]) : i \in 1..Len(node.kids)}

RECURSIVE Size(_)
RECURSIVE ListSize(_)
Size(node) == 1 + ListSize(node.kids)
ListSize(nodeList) ==
    IF nodeList = <<>> THEN 0 ELSE Size(Head(nodeList)) + ListSize(Tail(nodeList))

(***************************************************************************)
(* innerHTML: what doc.body.innerHTML = HTML followed by reading innerHTML *)
(* does to a tree.  Adjacent text nodes serialise to one run of text, so   *)
(* parsing it back gives one text node.                                    *)
(***************************************************************************)
RECURSIVE innerHTML(_)
innerHTML(nodeList) ==
    IF nodeList = <<>> THEN <<>>
    ELSE LET node == Head(nodeList)
             rest == innerHTML(Tail(nodeList))
         IN  IF node.tag = "#text"
             THEN IF rest # <<>> /\ Head(rest).tag = "#text"
                  THEN <<Text(node.text \o Head(rest).text)>> \o Tail(rest)
                  ELSE <<node>> \o rest
             ELSE <<[node EXCEPT !.kids = innerHTML(node.kids)]>> \o rest

(***************************************************************************)
(* Schemas                                                                 *)
(***************************************************************************)
Entry(tag, attributes, classes, require, hasChildren, children) ==
    [tag |-> tag, attributes |-> attributes, classes |-> classes,
     require |-> require, hasChildren |-> hasChildren, children |-> children,
     ref |-> ""]

\* schema.hasOwnProperty( key )
hasOwnProperty(sch, key) == \E e \in sch : e.tag = key

\* schema[ key ]
Get(sch, key) == CHOOSE e \in sch : e.tag = key

\* { ...a, ...b }: the keys of b win.
Spread(a, b) == {e \in a : ~hasOwnProperty(b, e.tag)} \cup b

\* omit( schema, key )
omit(sch, key) == {e \in sch : e.tag # key}

\* The keys of the object getPhrasingContentSchema builds; "3" is TEXT_NODE.
PhrasingKeys ==
    {"strong", "em", "del", "ins", "a", "code", "abbr", "sub", "sup", "br", "3"}

\* The tags given a children field by the forEach of getPhrasingContentSchema.
PhrasingParents ==
    {"strong", "em", "del", "ins", "a", "code", "abbr", "sub", "sup"}

\* omit copies the entries by reference, so the children of an entry hold the
\* very entries that later get children of their own: strong > em > strong.
getPhrasingContentSchema ==
    {[tag |-> t,
      attributes |-> IF t = "a" THEN <<"href">>
                     ELSE IF t = "abbr" THEN <<"title">> ELSE <<>>,
      classes |-> <<>>, require |-> <<>>,
      hasChildren |-> t \in PhrasingParents, children |-> {},
      ref |-> IF t \in PhrasingParents THEN t ELSE ""] : t \in PhrasingKeys}

\* entry.children
Children(entry) ==
    IF entry.ref # "" THEN omit(getPhrasingContentSchema, entry.ref)
    ELSE entry.children

isPhrasingContent(node) ==
    hasOwnProperty(getPhrasingContentSchema, node.tag) \/ node.tag = "span"

(***************************************************************************)
(* The schema sanitizer                                                    *)
(***************************************************************************)
RECURSIVE isEmpty(_)
isEmpty(element) ==
    \A i \in 1..Len(element.kids) :
        LET node == element.kids[i]
        IN  IF nodeType(node) = TEXT_NODE THEN trim(node.text) = <<>>
            ELSE IF nodeType(node) # ELEMENT_NODE THEN TRUE
            ELSE IF nodeName(node) = "BR" THEN TRUE
            ELSE IF hasAttributes(node) THEN FALSE
            ELSE isEmpty(node)

\* node.querySelector( require.join( ',' ) ) for a list of tag selectors.
querySelector(node, require) ==
    \E d \in Descendants(node) : d.tag \in Range(require)

\* "It's a valid child."
IsValidChild(node, sch) ==
    hasOwnProperty(sch, node.tag) \/ hasOwnProperty(sch, nodeTypeKey(node))

\* "If the node is empty and it's supposed to have children, remove the node."
IsRemovedEmpty(node, entry) == isEmpty(node) /\ entry.hasChildren

\* "Strip invalid attributes." and "Strip invalid classes."
StripAttributes(node, entry) ==
    [node EXCEPT
        !.attrs = {name \in node.attrs : name \in Range(entry.attributes)},
        !.class = SelectSeq(node.class, LAMBDA name : name \in Range(entry.classes))]

\* The require test with its negation dropped.
RequireUnmet_NegationDropped(node, entry) ==
    entry.require # <<>> /\ querySelector(node, entry.require)

\* "If a parent requires certain children, but it does not have them, drop
\* the parent and continue."
RequireUnmet(node, entry) ==
    entry.require # <<>> /\ ~querySelector(node, entry.require)

\* node.nextElementSibling, for the i-th node of the list under the forEach:
\* the siblings after it are still as they were.
nextElementSibling(nodeList, i) ==
    \E j \in (i + 1)..Len(nodeList) : nodeType(nodeList[j]) = ELEMENT_NODE

\* InsertsBreak without the test of the inline flag.
InsertsBreak_ModeIgnored(node, inl, hasNext) == ~isPhrasingContent(node) /\ hasNext

\* "For inline mode, insert a line break when unwrapping nodes that are not
\* phrasing content."
InsertsBreak(node, inl, hasNext) == inl /\ ~isPhrasingContent(node) /\ hasNext

Cleaned(nodes) == [nodes |-> nodes, threw |-> FALSE]
\* node.removeNode is not a function: the call throws a TypeError.
CleanThrew == [nodes |-> <<>>, threw |-> TRUE]

RECURSIVE cleanNodeList(_, _, _)
RECURSIVE cleanNode(_, _, _, _)
RECURSIVE cleanFrom(_, _, _, _)

\* One turn of the forEach: what takes the node's place in its parent.
cleanNode(node, sch, inl, hasNext) ==
    IF IsValidChild(node, sch)
    THEN IF nodeType(node) # ELEMENT_NODE THEN Cleaned(<<node>>)
         ELSE LET entry == Get(sch, node.tag)
                  stripped == StripAttributes(node, entry)
              IN  IF IsRemovedEmpty(node, entry) THEN Cleaned(<<>>)
                  ELSE IF node.kids = <<>> THEN Cleaned(<<stripped>>)
                  ELSE IF ~entry.hasChildren THEN CleanThrew
                  ELSE IF RequireUnmet(node, entry)
                       \* cleaned against the ambient schema and unwrapped;
                       \* the detached node then has no child left to clean.
                       THEN cleanNodeList(node.kids, sch, inl)
                       ELSE LET r == cleanNodeList(node.kids, Children(entry), inl)
                            IN  IF r.threw THEN CleanThrew
                                ELSE Cleaned(<<[stripped EXCEPT !.kids = r.nodes]>>)
    ELSE LET r == cleanNodeList(node.kids, sch, inl)
         IN  IF r.threw THEN CleanThrew
             ELSE Cleaned(r.nodes \o
                          (IF InsertsBreak(node, inl, hasNext)
                           THEN <<Element("br", {}, <<>>, <<>>)>> ELSE <<>>))

cleanFrom(nodeList, i, sch, inl) ==
    IF i > Len(nodeList) THEN Cleaned(<<>>)
    ELSE LET first == cleanNode(nodeList[i], sch, inl, nextElementSibling(nodeList, i))
         IN  IF first.threw THEN CleanThrew
             ELSE LET rest == cleanFrom(nodeList, i + 1, sch, inl)
                  IN  IF rest.threw THEN CleanThrew
                      ELSE Cleaned(first.nodes \o rest.nodes)

cleanNodeList(nodeList, sch, inl) == cleanFrom(nodeList, 1, sch, inl)

Returned(kind, value) == [kind |-> kind, value |-> value]
NoResult == Returned("none", <<>>)
TypeError == Returned("TypeError", <<>>)

removeInvalidHTML(html, sch, inl) ==
    LET r == cleanNodeList(html, sch, inl)
    IN  IF r.threw THEN TypeError ELSE Returned("string", innerHTML(r.nodes))

(***************************************************************************)
(* Fragments: the trees doc.body.innerHTML = HTML can build from the given *)
(* childless nodes (leaves) and the given elements that take children      *)
(* (shells), by number of nodes.                                           *)
(***************************************************************************)
RECURSIVE TreesOf(_, _, _)
RECURSIVE ForestsOf(_, _, _)
TreesOf(n, leaves, shells) ==
    IF n = 1 THEN leaves \cup shells
    ELSE {[s EXCEPT !.kids = f] : s \in shells, f \in ForestsOf(n - 1, leaves, shells)}

ForestsOf(n, leaves, shells) ==
    IF n = 0 THEN {<<>>}
    ELSE UNION {{<<t>> \o f : t \in TreesOf(k, leaves, shells),
                              f \in ForestsOf(n - k, leaves, shells)} : k \in 1..n}

\* Start tags that close an open p element: the parser never puts one of these
\* elements inside a p.  Nor does it put an a inside an a: the start tag of
\* the second closes the first.
ClosesP == {"p", "figure", "div", "ul", "ol", "li", "h1", "h2", "blockquote"}

RECURSIVE IsParsed(_)
IsParsed(nodeList) ==
    \A i \in 1..Len(nodeList) :
        /\ nodeList[i].tag = "p" =>
               \A d \in Descendants(nodeList[i]) : d.tag \notin ClosesP
        /\ nodeList[i].tag = "a" =>
               \A d \in Descendants(nodeList[i]) : d.tag # "a"
        /\ IsParsed(nodeList[i].kids)

\* What doc.body.innerHTML = HTML can build: the parser never leaves two text
\* nodes side by side.
Fragments(max, leaves, shells) ==
    {f \in UNION {ForestsOf(n, leaves, shells) : n \in 0..max} :
        innerHTML(f) = f /\ IsParsed(f)}

(***************************************************************************)
(* removeInvalidHTML, called on a fragment and then on its own output      *)
(***************************************************************************)
TextEntry == Entry("3", <<>>, <<>>, <<>>, FALSE, {})
ImgEntry == Entry("img", <<"src">>, <<>>, <<>>, FALSE, {})
BrEntry == Entry("br", <<>>, <<>>, <<>>, FALSE, {})

\* The schemas the sanitizer is run with: any choice of the text sentinel, img
\* and br at the top level, of an entry for p and of an entry for figure.
CleanSchemas ==
    {top \cup para \cup fig :
        top \in SUBSET {TextEntry, BrEntry},
        para \in {{}, {Entry("p", <<>>, <<"wide">>, <<>>, TRUE, {TextEntry})},
                  {Entry("p", <<"id">>, <<>>, <<>>, FALSE, {})}},
        fig \in {{}, {Entry("figure", <<>>, <<>>, <<"img">>, TRUE, {ImgEntry})},
                 {Entry("figure", <<>>, <<>>, <<"img">>, TRUE, {TextEntry})}}}

CleanLeaves ==
    {Text(<<"a">>), Text(<<" ">>), Element("br", {}, <<>>, <<>>),
     Element("img", {}, <<>>, <<>>), Element("img", {"src"}, <<>>, <<>>)}

CleanShells ==
    {Element("p", {}, <<>>, <<>>), Element("p", {"id"}, <<"wide", "x">>, <<>>),
     Element("figure", {}, <<>>, <<>>)}

InitClean ==
    /\ pc = "start"
    /\ HTML \in Fragments(MaxNodes, CleanLeaves, CleanShells)
    /\ schema \in CleanSchemas
    /\ inline \in BOOLEAN
    /\ result = NoResult
    /\ again = NoResult
    /\ transforms = <<>>
    /\ calls = 0
    /\ tagName = ""
    /\ EngineIdle
    /\ HandlerIdle

RemoveInvalidHTML ==
    /\ pc = "start"
    /\ result' = removeInvalidHTML(HTML, schema, inline)
    /\ pc' = "cleaned"
    /\ UNCHANGED <<HTML, schema, inline, again, transforms, calls, tagName, engineVars>>
    /\ UNCHANGED handlerVars

RemoveInvalidHTMLAgain ==
    /\ pc = "cleaned"
    /\ result.kind = "string"
    /\ again' = removeInvalidHTML(result.value, schema, inline)
    /\ pc' = "recleaned"
    /\ UNCHANGED <<HTML, schema, inline, result, transforms, calls, tagName, engineVars>>
    /\ UNCHANGED handlerVars

NextClean == RemoveInvalidHTML \/ RemoveInvalidHTMLAgain

SpecClean == InitClean /\ [][NextClean]_vars

(***************************************************************************)
(* Claims about the sanitizer                                              *)
(***************************************************************************)
\* C1: sanitization is idempotent: running removeInvalidHTML on the output of
\* removeInvalidHTML, with the same schema, returns that output unchanged.
C1_SanitizeIdempotent == pc = "recleaned" => again = result

\* The top-level element HTML[i] has an entry with a non-empty require list and
\* no descendant matching it.
RequireFails(i) ==
    /\ nodeType(HTML[i]) = ELEMENT_NODE
    /\ hasOwnProperty(schema, HTML[i].tag)
    /\ Get(schema, HTML[i].tag).require # <<>>
    /\ ~querySelector(HTML[i], Get(schema, HTML[i].tag).require)

RECURSIVE Nodes(_)
Nodes(nodeList) ==
    UNION {{nodeList[i]} \cup Nodes(nodeList[i].kids) : i \in 1..Len(nodeList)}

RECURSIVE UnwrappedAt(_, _)
UnwrappedAt(i, j) ==
    IF j > Len(HTML) THEN Cleaned(<<>>)
    ELSE LET first == IF j = i THEN cleanNodeList(HTML[j].kids, schema, inline)
                      ELSE cleanNode(HTML[j], schema, inline,
                                     nextElementSibling(HTML, j))
             rest == UnwrappedAt(i, j + 1)
         IN  IF first.threw \/ rest.threw THEN CleanThrew
             ELSE Cleaned(first.nodes \o rest.nodes)

RawTransform(blockName, selector, isMatch, transform, sch) ==
    [blockName |-> blockName, selector |-> selector, isMatch |-> isMatch,
     transform |-> transform, schema |-> sch]

\* The body of "if ( accu[ tag ] )": the entry accu[ tag ] after the three
\* assignments.  classes is not assigned.
MergeEntry(accuEntry, entry) ==
    [accuEntry EXCEPT
        !.hasChildren = accuEntry.hasChildren \/ entry.hasChildren,
        !.children = IF accuEntry.hasChildren \/ entry.hasChildren
                     THEN Spread(Children(accuEntry), Children(entry))
                     ELSE accuEntry.children,
        !.ref = IF accuEntry.hasChildren \/ entry.hasChildren THEN "" ELSE accuEntry.ref,
        !.attributes = accuEntry.attributes \o entry.attributes,
        !.require = accuEntry.require \o entry.require]

\* One turn of the reduce: the forEach over the keys of one transform's schema.
ReduceStep(accu, sch) ==
    {e \in accu : ~hasOwnProperty(sch, e.tag)} \cup
    {IF hasOwnProperty(accu, e.tag) THEN MergeEntry(Get(accu, e.tag), e) ELSE e :
        e \in sch}

RECURSIVE ReduceFrom(_, _, _)
ReduceFrom(list, i, accu) ==
    IF i > Len(list) THEN accu
    ELSE ReduceFrom(list, i + 1, ReduceStep(accu, list[i].schema))

\* The returned schema.
getBlockContentSchema(list) == ReduceFrom(list, 1, {})

\* The first transform of the list whose schema has the key.
FirstWith(list, tag) ==
    CHOOSE i \in 1..Len(list) :
        /\ hasOwnProperty(list[i].schema, tag)
        /\ \A j \in 1..(i - 1) : ~hasOwnProperty(list[j].schema, tag)

\* The transforms after the call.  "accu = { ...accu, [ tag ]: schema[ tag ] }"
\* puts the first contributor's own entry object into accu, and the
\* assignments to accu[ tag ] of later turns are assignments to that object.
TransformsAfter(list) ==
    [i \in 1..Len(list) |->
        [list[i] EXCEPT !.schema =
            {IF FirstWith(list, e.tag) = i THEN Get(getBlockContentSchema(list), e.tag)
             ELSE e : e \in list[i].schema}]]

FigureImage ==
    Entry("figure", <<"class">>, <<"aligncenter">>, <<"img">>, TRUE,
          {Entry("img", <<"src">>, <<>>, <<>>, FALSE, {})})
FigureCaption ==
    Entry("figure", <<"id">>, <<>>, <<>>, TRUE,
          {Entry("img", <<"alt">>, <<>>, <<>>, FALSE, {}),
           Entry("figcaption", <<>>, <<>>, <<>>, TRUE, {TextEntry})})
FigureVideo == Entry("figure", <<>>, <<>>, <<"video">>, FALSE, {})
IframeEntry == Entry("iframe", <<"src">>, <<>>, <<>>, FALSE, {})
ParagraphEntry == Entry("p", <<>>, <<>>, <<>>, TRUE, {TextEntry})

\* Raw transforms as blocks register them.
CoreImage == RawTransform("core/image", "figure", {"default"}, FALSE, {FigureImage})
CoreGallery == RawTransform("core/gallery", "figure", {"default"}, FALSE, {FigureCaption})
CoreVideo == RawTransform("core/video", "", {"figure"}, TRUE, {FigureVideo})
CoreEmbed == RawTransform("core/embed", "iframe", {"default"}, TRUE, {IframeEntry})
CoreParagraph == RawTransform("core/paragraph", "p", {"default"}, FALSE, {ParagraphEntry})
CoreHtml == RawTransform("core/html", "", {"default"}, FALSE, {})

\* The raw transforms a registry is drawn from.
RawTransforms == {CoreImage, CoreGallery, CoreVideo, CoreEmbed, CoreParagraph, CoreHtml}

Registries ==
    UNION {[1..n -> RawTransforms] : n \in 0..MaxTransforms}

InitSchema ==
    /\ pc = "start"
    /\ transforms \in Registries
    /\ calls = 0
    /\ HTML = <<>>
    /\ schema = {}
    /\ inline = FALSE
    /\ result = NoResult
    /\ again = NoResult
    /\ tagName = ""
    /\ EngineIdle
    /\ HandlerIdle

GetBlockContentSchema ==
    /\ calls < MaxCalls
    /\ result' = Returned("schema", getBlockContentSchema(transforms))
    /\ transforms' = TransformsAfter(transforms)
    /\ calls' = calls + 1
    /\ pc' = "composed"
    /\ UNCHANGED <<HTML, schema, inline, again, tagName, engineVars>>
    /\ UNCHANGED handlerVars

NextSchema == GetBlockContentSchema

SpecSchema == InitSchema /\ [][NextSchema]_vars

(***************************************************************************)
(* Claims about schema composition                                         *)
(***************************************************************************)
Permute(list, perm) == [i \in 1..Len(list) |-> list[perm[i]]]

\* A schema with its attribute and require lists read as sets, at every depth.
RECURSIVE Allowances(_)
Allowances(sch) ==
    {[tag |-> e.tag, attributes |-> Range(e.attributes), require |-> Range(e.require),
      hasChildren |-> e.hasChildren, children |-> Allowances(Children(e))] : e \in sch}

\* C2: the composed schema does not depend on the order of the transforms:
\* composing any permutation of the list gives the same tags, and for each tag
\* the same attributes, require list and children schema.
C2_MergeOrderIndependent ==
    [][calls = 0 /\ calls' = 1 =>
         \A perm \in Permutations(1..Len(transforms)) :
             Allowances(getBlockContentSchema(Permute(transforms, perm)))
                 = Allowances(result'.value)]_vars

\* The merged entry allows all that the contributed entry allows, at every
\* depth of the children schema.
RECURSIVE Keeps(_, _)
Keeps(merged, entry) ==
    /\ Range(entry.attributes) \subseteq Range(merged.attributes)
    /\ Range(entry.require) \subseteq Range(merged.require)
    /\ entry.hasChildren => merged.hasChildren
    /\ \A c \in Children(entry) :
           /\ hasOwnProperty(Children(merged), c.tag)
           /\ Keeps(Get(Children(merged), c.tag), c)

\* C9: for a tag contributed by more than one transform, the composed schema
\* keeps every attribute, require selector and child allowance any contributor
\* declared for the tag.
C9_MergeLosesNoAllowance ==
    [][calls = 0 /\ calls' = 1 =>
         \A i \in 1..Len(transforms) : \A e \in transforms[i].schema :
             /\ hasOwnProperty(result'.value, e.tag)
             /\ Keeps(Get(result'.value, e.tag), e)]_vars

(***************************************************************************)
(* isInlineContent                                                         *)
(***************************************************************************)
inlineWhitelistTagGroups ==
    {{"ul", "li", "ol"}, {"h1", "h2", "h3", "h4", "h5", "h6"}}

isInlineForTag(name, tag) ==
    IF tag = "" \/ name = "" THEN FALSE
    ELSE \E tagGroup \in inlineWhitelistTagGroups : name \in tagGroup /\ tag \in tagGroup

isInline(node, tag) == isPhrasingContent(node) \/ isInlineForTag(node.tag, tag)

\* element.children: the child nodes that are elements.
children(nodeList) == SelectSeq(nodeList, LAMBDA n : nodeType(n) = ELEMENT_NODE)

RECURSIVE deepCheck(_, _)
deepCheck(nodes, tag) ==
    \A i \in 1..Len(nodes) :
        isInline(nodes[i], tag) /\ deepCheck(children(nodes[i].kids), tag)

\* isDoubleBR of the i-th child node of a list: previousSibling is the child
\* node before it, whatever its type.
isDoubleBR(nodeList, i) ==
    nodeName(nodeList[i]) = "BR" /\ i > 1 /\ nodeName(nodeList[i - 1]) = "BR"

\* nodes.some( isDoubleBR ), nodes being doc.body.children.
someDoubleBR(nodeList) ==
    \E i \in 1..Len(nodeList) :
        nodeType(nodeList[i]) = ELEMENT_NODE /\ isDoubleBR(nodeList, i)

isInlineContent(html, tag) ==
    ~someDoubleBR(html) /\ deepCheck(children(html), tag)

InlineLeaves == {Text(<<"a">>), Element("br", {}, <<>>, <<>>)}
InlineShells ==
    {Element("strong", {}, <<>>, <<>>), Element("li", {}, <<>>, <<>>),
     Element("p", {}, <<>>, <<>>)}

InitInline ==
    /\ pc = "start"
    /\ HTML \in Fragments(MaxNodes, InlineLeaves, InlineShells)
    /\ tagName \in {"", "ul", "h2"}
    /\ schema = {}
    /\ inline = FALSE
    /\ result = NoResult
    /\ again = NoResult
    /\ transforms = <<>>
    /\ calls = 0
    /\ EngineIdle
    /\ HandlerIdle

IsInlineContent ==
    /\ pc = "start"
    /\ result' = Returned("boolean", isInlineContent(HTML, tagName))
    /\ pc' = "classified"
    /\ UNCHANGED <<HTML, schema, inline, again, transforms, calls, tagName, engineVars>>
    /\ UNCHANGED handlerVars

NextInline == IsInlineContent

SpecInline == InitInline /\ [][NextInline]_vars

(***************************************************************************)
(* Claims about isInlineContent                                            *)
(***************************************************************************)
\* Some br, at any depth, comes right after another br.
RECURSIVE HasDoubleBr(_)
HasDoubleBr(nodeList) ==
    \E i \in 1..Len(nodeList) :
        \/ nodeList[i].tag = "br" /\ i > 1 /\ nodeList[i - 1].tag = "br"
        \/ HasDoubleBr(nodeList[i].kids)

\* C7: isInlineContent returns true exactly when no br anywhere in the
\* fragment is immediately preceded by another br and every element, at every
\* depth, is phrasing content or in the tag group of tagName.
C7_InlineExactly ==
    pc = "classified" =>
        result.value =
            (/\ ~HasDoubleBr(HTML)
             /\ \A n \in Nodes(HTML) :
                    nodeType(n) = ELEMENT_NODE =>
                        isPhrasingContent(n) \/ isInlineForTag(n.tag, tagName))

(***************************************************************************)
(* Documents                                                               *)
(*                                                                         *)
(* The filters work on a document whose nodes they move about, so a node   *)
(* has an identity here: a document is a function from node ids to         *)
(* [tag, attrs, class, text, kids, parent], kids being ids and parent the  *)
(* id of the parent node (-1: none).  Node 0 is doc.body; the nodes parsed *)
(* from the HTML are numbered 1, 2, ... in document order, and each        *)
(* created node gets the next id.                                          *)
(***************************************************************************)
Body == 0
NoNode == -1

RECURSIVE LoadList(_, _, _)
LoadList(nodeList, parent, next) ==
    IF nodeList = <<>> THEN [map |-> <<>>, ids |-> <<>>, next |-> next]
    ELSE LET node == Head(nodeList)
             sub == LoadList(node.kids, next, next + 1)
             rest == LoadList(Tail(nodeList), parent, sub.next)
         IN  [map |-> (next :> [tag |-> node.tag, attrs |-> node.attrs,
                                class |-> node.class, text |-> node.text,
                                kids |-> sub.ids, parent |-> parent])
                      @@ sub.map @@ rest.map,
              ids |-> <<next>> \o rest.ids,
              next |-> rest.next]

\* document.implementation.createHTMLDocument( '' ); doc.body.innerHTML = HTML
createHTMLDocument(html) ==
    LET loaded == LoadList(html, Body, 1)
    IN  (Body :> [tag |-> "body", attrs |-> {}, class |-> <<>>, text |-> <<>>,
                  kids |-> loaded.ids, parent |-> NoNode]) @@ loaded.map

RECURSIVE Tree(_, _)
Tree(d, id) ==
    [tag |-> d[id].tag, attrs |-> d[id].attrs, class |-> d[id].class,
     text |-> d[id].text, kids |-> [i \in 1..Len(d[id].kids) |-> Tree(d, d[id].kids[i])]]

\* doc.body.innerHTML
bodyHTML(d) == innerHTML(Tree(d, Body).kids)

\* doc.contains( node )
RECURSIVE contains(_, _)
contains(d, id) ==
    IF id = Body THEN TRUE
    ELSE IF d[id].parent = NoNode THEN FALSE
    ELSE contains(d, d[id].parent)

IndexOf(seq, x) == CHOOSE i \in 1..Len(seq) : seq[i] = x

\* The node leaves the child list of its parent, if it has one.
Detach(d, id) ==
    IF d[id].parent = NoNode THEN d
    ELSE [d EXCEPT ![d[id].parent].kids = SelectSeq(@, LAMBDA k : k # id),
                   ![id].parent = NoNode]

\* parent.insertBefore( node, reference )
insertBefore(d, parent, id, reference) ==
    LET detached == Detach(d, id)
        at == IndexOf(detached[parent].kids, reference)
    IN  [detached EXCEPT
            ![parent].kids = SubSeq(@, 1, at - 1) \o <<id>> \o SubSeq(@, at, Len(@)),
            ![id].parent = parent]

\* parent.appendChild( node )
appendChild(d, parent, id) ==
    LET detached == Detach(d, id)
    IN  [detached EXCEPT ![parent].kids = Append(@, id), ![id].parent = parent]

\* doc.createElement( tag ): the document with the new node, whose id is the
\* number of nodes there were.
NewId(d) == Cardinality(DOMAIN d)
createElement(d, tag) ==
    d @@ (NewId(d) :> [tag |-> tag, attrs |-> {}, class |-> <<>>, text |-> <<>>,
                       kids |-> <<>>, parent |-> NoNode])

\* unwrap of @wordpress/utils: the children of the node take its place.
RECURSIVE unwrap(_, _)
unwrap(d, id) ==
    IF d[id].kids = <<>> THEN Detach(d, id)
    ELSE unwrap(insertBefore(d, d[id].parent, d[id].kids[1], id), id)

(***************************************************************************)
(* embeddedContentReducer                                                  *)
(***************************************************************************)
Filtered(d) == [doc |-> d, threw |-> FALSE]
\* schema.figure.children is undefined: reading hasOwnProperty of it throws.
FilterThrew(d) == [doc |-> d, threw |-> TRUE]

\* The three tests that come before the look-up in schema.figure.children.
IsNeverEmbedded(node, sch) ==
    ~hasOwnProperty(sch, "figure") \/ node.tag = "figcaption" \/ isPhrasingContent(node)

isEmbedded(node, sch) ==
    IF IsNeverEmbedded(node, sch) THEN FALSE
    ELSE hasOwnProperty(Children(Get(sch, "figure")), node.tag)

\* nodeToInsert without the look at the parent: always the node itself.
nodeToInsert_AnchorIgnored(d, id) == id

\* "if the embedded is an image and its parent is an anchor with just the
\* image take the anchor out instead of just the image"
nodeToInsert(d, id) ==
    IF /\ nodeName(d[id]) = "IMG"
       /\ Len(d[d[id].parent].kids) = 1
       /\ nodeName(d[d[id].parent]) = "A"
    THEN d[id].parent
    ELSE id

\* The while loop: the node itself or its nearest ancestor named P; NoNode
\* when the walk up parentElement ends without one.
RECURSIVE wrapper(_, _)
wrapper(d, id) ==
    IF id = NoNode \/ id = Body THEN NoNode
    ELSE IF nodeName(d[id]) = "P" THEN id
    ELSE wrapper(d, d[id].parent)

\* InsertionReference without the walk up to the paragraph.
InsertionReference_NoWalk(d, moved) == moved

\* The node the figure is inserted before: the wrapper if the loop found one,
\* else nodeToInsert.
InsertionReference(d, moved) ==
    IF wrapper(d, moved) # NoNode THEN wrapper(d, moved) ELSE moved

embeddedContentReducer(d, id, sch) ==
    IF nodeType(d[id]) # ELEMENT_NODE THEN Filtered(d)
    ELSE IF ~IsNeverEmbedded(d[id], sch) /\ ~Get(sch, "figure").hasChildren
         THEN FilterThrew(d)
    ELSE IF ~isEmbedded(d[id], sch) THEN Filtered(d)
    ELSE LET moved == nodeToInsert(d, id)
             before == InsertionReference(d, moved)
             figure == NewId(d)
             created == createElement(d, "figure")
         IN  Filtered(appendChild(
                 insertBefore(created, created[before].parent, figure, before),
                 figure, moved))

(***************************************************************************)
(* deepFilterNodeList and deepFilterHTML                                   *)
(*                                                                         *)
(* A call of deepFilterNodeList under way is a frame [nodes, i, f]: nodes  *)
(* is Array.from( nodeList ), i the turn of its forEach, f the filter that *)
(* comes next for nodes[i] (0: the recursive call for its child nodes has  *)
(* not been made yet).                                                     *)
(***************************************************************************)
Frame(nodes) == [nodes |-> nodes, i |-> 1, f |-> 0]
Top == stack[Len(stack)]
\* The node of the innermost forEach turn.
Current == Top.nodes[Top.i]
SetTop(frame) == [stack EXCEPT ![Len(stack)] = frame]

\* The filter rawHandler puts first when the user may not use unfiltered HTML:
\* ( node ) => node.nodeName === 'iframe' && unwrap( node )
iframeFilter(d, id) ==
    IF nodeName(d[id]) = "iframe" THEN Filtered(unwrap(d, id)) ELSE Filtered(d)

\* The repair filters (msListConverter, listReducer, imageCorrector,
\* phrasingContentReducer, specialCommentConverter, blockquoteNormaliser) look
\* for Word lists, nested lists, images without a usable src, styled spans,
\* editor comments and blockquotes; the fragments here hold none of these.
repairFilter(d, id) == Filtered(d)

\* A filter of the shape of the iframe filter, with a test that elements
\* meet: ( node ) => node.nodeName === 'STRONG' && unwrap( node ).  unwrap
\* reads the parent of the node and throws if there is none.
unwrapper(d, id) ==
    IF nodeName(d[id]) # "STRONG" THEN Filtered(d)
    ELSE IF d[id].parent = NoNode THEN FilterThrew(d)
    ELSE Filtered(unwrap(d, id))

\* A filter that, given an img whose parent is a p, removes that p from the
\* document.
parentRemover(d, id) ==
    IF nodeName(d[id]) # "IMG" THEN Filtered(d)
    ELSE IF d[id].parent = NoNode THEN FilterThrew(d)
    ELSE IF nodeName(d[d[id].parent]) # "P" THEN Filtered(d)
    ELSE Filtered(Detach(d, d[id].parent))

\* item( node, doc, schema )
item(name, d, id, sch) ==
    CASE name = "embeddedContentReducer" -> embeddedContentReducer(d, id, sch)
      [] name = "iframeFilter" -> iframeFilter(d, id)
      [] name = "unwrapper" -> unwrapper(d, id)
      [] name = "parentRemover" -> parentRemover(d, id)
      [] OTHER -> repairFilter(d, id)

\* An entry of visits: the node was reached with these child nodes, or the
\* filter of this place in the list had its turn on the node and was applied
\* or skipped; attached tells whether doc contained the node at that moment.
Visit(kind, node, filter, kids, attached) ==
    [kind |-> kind, node |-> node, filter |-> filter, kids |-> kids,
     attached |-> attached]

\* IsSkipped without the look at the document.
IsSkipped_Never(d, id) == FALSE

\* "Make sure the node is still attached to the document."
IsSkipped(d, id) == ~contains(d, id)

\* deepFilterNodeList( node.childNodes, filters, doc, schema )
Descend ==
    /\ pc = "filter"
    /\ Top.i <= Len(Top.nodes)
    /\ Top.f = 0
    /\ stack' = Append(SetTop([Top EXCEPT !.f = 1]), Frame(doc[Current].kids))
    /\ visits' = Append(visits, Visit("reached", Current, 0, doc[Current].kids,
                                      contains(doc, Current)))
    /\ UNCHANGED <<pc, HTML, schema, inline, result, again, transforms, calls,
                   tagName, doc, filters>>
    /\ UNCHANGED handlerVars

\* One turn of filters.forEach: the filter is applied if the node is still
\* in the document.  A filter that throws ends the call.
ApplyFilter ==
    /\ pc = "filter"
    /\ Top.i <= Len(Top.nodes)
    /\ Top.f \in 1..Len(filters)
    /\ visits' = Append(visits,
                        Visit(IF IsSkipped(doc, Current) THEN "skipped" ELSE "applied",
                              Current, Top.f, <<>>, contains(doc, Current)))
    /\ LET applied == IF IsSkipped(doc, Current) THEN Filtered(doc)
                      ELSE item(filters[Top.f], doc, Current, schema)
       IN  IF applied.threw
           THEN /\ pc' = "done"
                /\ result' = TypeError
                /\ UNCHANGED <<doc, stack>>
           ELSE /\ doc' = applied.doc
                /\ stack' = SetTop([Top EXCEPT !.f = @ + 1])
                /\ UNCHANGED <<pc, result>>
    /\ UNCHANGED <<HTML, schema, inline, again, transforms, calls, tagName, filters>>
    /\ UNCHANGED handlerVars

\* The next turn of the forEach over the nodes.
NextNode ==
    /\ pc = "filter"
    /\ Top.i <= Len(Top.nodes)
    /\ Top.f > Len(filters)
    /\ stack' = SetTop([Top EXCEPT !.i = @ + 1, !.f = 0])
    /\ UNCHANGED <<pc, HTML, schema, inline, result, again, transforms, calls,
                   tagName, doc, filters, visits>>
    /\ UNCHANGED handlerVars

\* deepFilterNodeList returns; the outermost call returns into deepFilterHTML,
\* which returns doc.body.innerHTML.
Return ==
    /\ pc = "filter"
    /\ Top.i > Len(Top.nodes)
    /\ stack' = SubSeq(stack, 1, Len(stack) - 1)
    /\ IF Len(stack) = 1
       THEN pc' = "filtered" /\ result' = Returned("string", bodyHTML(doc))
       ELSE UNCHANGED <<pc, result>>
    /\ UNCHANGED <<HTML, schema, inline, again, transforms, calls, tagName, doc,
                   filters, visits>>
    /\ UNCHANGED handlerVars

(***************************************************************************)
(* deepFilterHTML( input, [ embeddedContentReducer ], schema ), as the     *)
(* tests of embeddedContentReducer call it                                 *)
(***************************************************************************)
\* Most nodes in a fragment handed to deepFilterHTML.
MaxFilterNodes == 4

\* The schema of the tests: figure: { children: { img: {} } }.
FigureSchema ==
    {Entry("figure", <<>>, <<>>, <<>>, TRUE, {Entry("img", <<>>, <<>>, <<>>, FALSE, {})})}

FilterLeaves == {Text(<<"a">>), Element("img", {}, <<"one">>, <<>>)}
FilterShells ==
    {Element("p", {}, <<>>, <<>>), Element("strong", {}, <<>>, <<>>),
     Element("a", {"href"}, <<>>, <<>>)}

InitFilter ==
    /\ pc = "filter"
    /\ HTML \in Fragments(MaxFilterNodes, FilterLeaves, FilterShells)
    /\ schema = FigureSchema
    /\ filters = <<"embeddedContentReducer">>
    /\ doc = createHTMLDocument(HTML)
    /\ stack = <<Frame(doc[Body].kids)>>
    /\ visits = <<>>
    /\ inline = FALSE
    /\ result = NoResult
    /\ again = NoResult
    /\ transforms = <<>>
    /\ calls = 0
    /\ tagName = ""
    /\ HandlerIdle

NextFilter == Descend \/ ApplyFilter \/ NextNode \/ Return

SpecFilter == InitFilter /\ [][NextFilter]_vars

(***************************************************************************)
(* Promotion of embedded content                                           *)
(***************************************************************************)
\* The document as deepFilterHTML parsed it, before any filter ran.
InitialDoc == createHTMLDocument(HTML)

\* id is a proper descendant of ancestor.
RECURSIVE Inside(_, _, _)
Inside(d, id, ancestor) ==
    IF d[id].parent = NoNode THEN FALSE
    ELSE d[id].parent = ancestor \/ Inside(d, d[id].parent, ancestor)

Paragraphs(d) == {id \in DOMAIN d : d[id].tag = "p"}
ImagesIn(d, paragraph) == {m \in DOMAIN d : d[m].tag = "img" /\ Inside(d, m, paragraph)}
CreatedFigures == {f \in DOMAIN doc \ DOMAIN InitialDoc : doc[f].tag = "figure"}
FigureOf(m) == CHOOSE f \in CreatedFigures : Inside(doc, m, f)
Precedes(d, first, second) ==
    /\ d[first].parent = d[second].parent
    /\ d[first].parent # NoNode
    /\ IndexOf(d[d[first].parent].kids, first) < IndexOf(d[d[second].parent].kids, second)

\* Every img of the paragraph is in a created figure of its own, the figures
\* are siblings before the paragraph, in the order of the images.
FiguresPrecede(paragraph) ==
    LET images == ImagesIn(InitialDoc, paragraph)
    IN  /\ \A m \in images :
              \E f \in CreatedFigures :
                  /\ Inside(doc, m, f)
                  /\ Precedes(doc, f, paragraph)
                  /\ \A other \in images \ {m} : ~Inside(doc, other, f)
        /\ \A m1, m2 \in images : m1 < m2 => Precedes(doc, FigureOf(m1), FigureOf(m2))

\* The tree without its img elements.
RECURSIVE WithoutImages(_)
WithoutImages(node) ==
    LET kept == SelectSeq(node.kids, LAMBDA k : k.tag # "img")
    IN  [node EXCEPT !.kids = [i \in 1..Len(kept) |-> WithoutImages(kept[i])]]

\* An a element with child nodes that are all img elements.
IsImageLink(node) ==
    /\ node.tag = "a"
    /\ node.kids # <<>>
    /\ \A i \in 1..Len(node.kids) : node.kids[i].tag = "img"

\* The tree without its img elements and without the links that hold nothing
\* but img elements.
RECURSIVE WithoutPromoted(_)
WithoutPromoted(node) ==
    LET kept == SelectSeq(node.kids, LAMBDA k : k.tag # "img" /\ ~IsImageLink(k))
    IN  [node EXCEPT !.kids = [i \in 1..Len(kept) |-> WithoutPromoted(kept[i])]]

\* C5 as written: when deepFilterHTML has returned, every img that was inside
\* a p is in a created figure of its own, the figures are siblings before the
\* p in the order of the images, and the p is what it was with only the img
\* elements taken out.
C5_ParagraphKeepsAllElse ==
    pc = "filtered" =>
        \A paragraph \in Paragraphs(InitialDoc) :
            /\ FiguresPrecede(paragraph)
            /\ Tree(doc, paragraph) = WithoutImages(Tree(InitialDoc, paragraph))

\* C5 amended: as above, but the p also loses every a element whose child
\* nodes were all img elements; such a link is in the figure of its last img.
C5_ParagraphKeepsAllButImageLinks ==
    pc = "filtered" =>
        \A paragraph \in Paragraphs(InitialDoc) :
            /\ FiguresPrecede(paragraph)
            /\ Tree(doc, paragraph) = WithoutPromoted(Tree(InitialDoc, paragraph))

\* Two images of one paragraph, one of them deeper than the other, have been
\* promoted.
C5_Witness ==
    /\ pc = "filtered"
    /\ \E paragraph \in Paragraphs(InitialDoc) :
          \E m1, m2 \in ImagesIn(InitialDoc, paragraph) :
              /\ m1 # m2
              /\ InitialDoc[m1].parent # paragraph
              /\ Cardinality(CreatedFigures) = 2

\* The filter turn at hand applies embeddedContentReducer to an embedded img
\* that is still in the document.
PromotesImage ==
    /\ pc = "filter"
    /\ stack # <<>>
    /\ Top.i <= Len(Top.nodes)
    /\ Top.f \in 1..Len(filters)
    /\ filters[Top.f] = "embeddedContentReducer"
    /\ contains(doc, Current)
    /\ doc[Current].tag = "img"
    /\ isEmbedded(doc[Current], schema)

\* C6: a step of embeddedContentReducer on an embedded img whose parent is an
\* a with no other child node moves the a, img inside and attributes intact,
\* into the new figure, and the figure is a sibling before the enclosing p;
\* if the a has another child node, the img alone is moved and the a stays
\* where it is with its other child nodes.
C6_AnchorPreserved ==
    [][PromotesImage =>
        LET img == Current
            link == doc[img].parent
            figure == NewId(doc)
            paragraph == wrapper(doc, img)
        IN  /\ figure \in DOMAIN doc' /\ doc'[figure].tag = "figure"
            /\ doc[link].tag = "a" /\ Len(doc[link].kids) = 1 =>
                  /\ doc'[figure].kids = <<link>>
                  /\ doc'[link] = [doc[link] EXCEPT !.parent = figure]
                  /\ doc'[img] = doc[img]
                  /\ paragraph # NoNode => Precedes(doc', figure, paragraph)
            /\ doc[link].tag = "a" /\ Len(doc[link].kids) > 1 =>
                  /\ doc'[figure].kids = <<img>>
                  /\ doc'[img] = [doc[img] EXCEPT !.parent = figure]
                  /\ doc'[link].parent = doc[link].parent
                  /\ doc'[link].attrs = doc[link].attrs
                  /\ SelectSeq(doc'[link].kids, LAMBDA k : k # figure)
                        = SelectSeq(doc[link].kids, LAMBDA k : k # img)
    ]_vars

\* A link with its href and its one img has been moved into a figure that
\* stands before the paragraph the link was in.
C6_Witness ==
    /\ pc = "filtered"
    /\ \E f \in CreatedFigures :
          /\ Len(doc[f].kids) = 1
          /\ doc[doc[f].kids[1]].tag = "a"
          /\ "href" \in doc[doc[f].kids[1]].attrs
          /\ InitialDoc[InitialDoc[doc[f].kids[1]].parent].tag = "p"
          /\ Precedes(doc, f, InitialDoc[doc[f].kids[1]].parent)

(***************************************************************************)
(* rawHandler                                                              *)
(*                                                                         *)
(* A string of HTML is the sequence of nodes it parses to; the plain text  *)
(* is a sequence of tokens.  A piece is [kind, value]: a string of HTML or *)
(* a block that replaced a shortcode.                                      *)
(***************************************************************************)
\* Most nodes in the HTML handed to rawHandler.
MaxRawNodes == 2

\* <!-- wp:..., the delimiter of a serialised block.
Marker == Comment(<<" wp:">>)
\* The text of a shortcode that shortcodeConverter matches.
Shortcode == Text(<<"[gallery]">>)

Block(blockName, by, node) == [blockName |-> blockName, by |-> by, node |-> node]
Piece(kind, value) == [kind |-> kind, value |-> value]

\* The first <meta ...> with something after the tag name, in document order,
\* taken out.
RECURSIVE StripFirstMeta(_)
StripFirstMeta(nodeList) ==
    IF nodeList = <<>> THEN [nodes |-> <<>>, found |-> FALSE]
    ELSE LET node == Head(nodeList)
         IN  IF node.tag = "meta" /\ node.attrs # {}
             THEN [nodes |-> Tail(nodeList), found |-> TRUE]
             ELSE LET inner == StripFirstMeta(node.kids)
                      rest == StripFirstMeta(Tail(nodeList))
                  IN  IF inner.found
                      THEN [nodes |-> <<[node EXCEPT !.kids = inner.nodes]>>
                                        \o Tail(nodeList),
                            found |-> TRUE]
                      ELSE [nodes |-> <<node>> \o rest.nodes, found |-> rest.found]

\* HTML.replace( /<meta[^>]+>/, '' )
stripMeta(html) == innerHTML(StripFirstMeta(html).nodes)

\* HTML.indexOf( '<!-- wp:' ) !== -1
hasMarker(html) ==
    \E node \in Nodes(html) :
        node.tag = "#comment" /\ node.text # <<>> /\ node.text[1] = " wp:"

\* Every br replaced by a text node holding a line break.
RECURSIVE replaceBRs(_)
replaceBRs(nodeList) ==
    [i \in 1..Len(nodeList) |->
        IF nodeList[i].tag = "br" THEN Text(<<"\n">>)
        ELSE [nodeList[i] EXCEPT !.kids = replaceBRs(@)]]

isPlain(html) ==
    LET normalized == innerHTML(replaceBRs(html))
    IN  Len(normalized) = 1 /\ nodeType(normalized[1]) = TEXT_NODE

\* The plain texts handed to rawHandler; <<>> is the default ''.
PlainTexts ==
    {<<>>, <<"a">>, <<"a", "\n", "b">>, <<"<p>", "a", "</p>">>, <<"#", " ", "a">>}

\* The converter: Markdown becomes HTML, HTML stays HTML, a line of text
\* becomes a paragraph and a line break in it a br.
convertMarkdown(text) ==
    CASE text = <<"a">> -> <<Element("p", {}, <<>>, <<Text(<<"a">>)>>)>>
      [] text = <<"a", "\n", "b">> ->
            <<Element("p", {}, <<>>,
                      <<Text(<<"a">>), Element("br", {}, <<>>, <<>>), Text(<<"b">>)>>)>>
      [] text = <<"<p>", "a", "</p>">> -> <<Element("p", {}, <<>>, <<Text(<<"a">>)>>)>>
      [] text = <<"#", " ", "a">> -> <<Element("h1", {}, <<>>, <<Text(<<"a">>)>>)>>
      [] OTHER -> <<>>

\* The pieces: the HTML before a matched shortcode, the block it stands for,
\* and the pieces of the HTML after it; the HTML alone if none is matched.
RECURSIVE shortcodeConverter(_)
shortcodeConverter(html) ==
    IF \E i \in 1..Len(html) : html[i] = Shortcode
    THEN LET at == CHOOSE i \in 1..Len(html) :
                       html[i] = Shortcode /\ \A j \in 1..(i - 1) : html[j] # Shortcode
         IN  <<Piece("string", SubSeq(html, 1, at - 1)),
               Piece("block", Block("core/gallery", "shortcode", Shortcode))>>
             \o shortcodeConverter(SubSeq(html, at + 1, Len(html)))
    ELSE <<Piece("string", html)>>

\* The parser of serialised blocks.
parseWithGrammar(html) == <<Block("core/freeform", "parser", html)>>

\* deepFilterHTML with phrasingContentReducer alone gives the HTML back
\* serialised; removeInvalidHTML then keeps the phrasing content.
filterInlineHTML(html) ==
    removeInvalidHTML(bodyHTML(createHTMLDocument(html)), getPhrasingContentSchema, TRUE)

\* A top-level node that is not a block of its own.
IsStray(node) ==
    nodeType(node) = TEXT_NODE \/ (nodeType(node) = ELEMENT_NODE /\ isPhrasingContent(node))

RECURSIVE normaliseFrom(_, _)
normaliseFrom(nodeList, run) ==
    LET closed == IF run = <<>> THEN <<>> ELSE <<Element("p", {}, <<>>, run)>>
    IN  IF nodeList = <<>> THEN closed
        ELSE IF IsStray(Head(nodeList))
             THEN normaliseFrom(Tail(nodeList), Append(run, Head(nodeList)))
        ELSE IF nodeType(Head(nodeList)) # ELEMENT_NODE
             THEN normaliseFrom(Tail(nodeList), run)
        ELSE closed \o <<Head(nodeList)>> \o normaliseFrom(Tail(nodeList), <<>>)

\* Each run of top-level text and phrasing content is wrapped in a p.
normaliseBlocks(html) == normaliseFrom(html, <<>>)

\* isMatch( node ): the transform's own isMatch if it has one, else
\* transform.selector && node.matches( transform.selector ).
isMatch(transform, node) ==
    IF transform.isMatch = {"default"}
    THEN transform.selector # "" /\ node.tag = transform.selector
    ELSE node.tag \in transform.isMatch

\* find( rawTransformations, ( { isMatch } ) => isMatch( node ) ): the place
\* of the first match, 0 for undefined.
find(rawTransformations, node) ==
    IF \E i \in 1..Len(rawTransformations) : isMatch(rawTransformations[i], node)
    THEN CHOOSE i \in 1..Len(rawTransformations) :
             /\ isMatch(rawTransformations[i], node)
             /\ \A j \in 1..(i - 1) : ~isMatch(rawTransformations[j], node)
    ELSE 0

\* The block the map callback returns for a node that a transform matches.
BlockFor(rawTransformations, node) ==
    LET found == rawTransformations[find(rawTransformations, node)]
    IN  IF found.transform THEN Block(found.blockName, "transform", node)
        ELSE Block(found.blockName, "createBlock", node)

\* The filters of a piece, before the iframe filter is put in front.
PieceFilters ==
    <<"msListConverter", "listReducer", "imageCorrector", "phrasingContentReducer",
      "specialCommentConverter", "embeddedContentReducer", "blockquoteNormaliser">>

(***************************************************************************)
(* One call of rawHandler                                                  *)
(***************************************************************************)
\* The HTML after the meta tag is stripped.
Stripped == stripMeta(HTML)
\* The plain text is converted.
Converts == plainText # <<>> /\ (Stripped = <<>> \/ isPlain(Stripped))
\* The HTML after the Markdown step.
Converted == IF Converts THEN convertMarkdown(plainText) ELSE Stripped
\* The mode after the Markdown step.
HandlerMode ==
    IF /\ Converts
       /\ mode = "AUTO"
       /\ "\n" \notin Range(plainText)
       /\ plainText[1] # "<p>"
       /\ Converted # <<>>
       /\ Converted[1].tag = "p" /\ ~hasAttributes(Converted[1])
    THEN "INLINE" ELSE mode
hasShortcodes == Len(shortcodeConverter(Converted)) > 1

\* rawHandler up to the flatMap over the pieces: it returns what
\* parseWithGrammar or filterInlineHTML returns, or goes on in block mode.
RawHandler ==
    /\ pc = "start"
    /\ IF mode # "INLINE" /\ hasMarker(Stripped)
       THEN /\ result' = Returned("blocks", parseWithGrammar(Stripped))
            /\ pc' = "done"
            /\ UNCHANGED <<schema, transforms, pieces>>
       ELSE IF \/ HandlerMode = "INLINE"
               \/ HandlerMode = "AUTO" /\ ~hasShortcodes
                                       /\ isInlineContent(Converted, tagName)
       THEN /\ result' = filterInlineHTML(Converted)
            /\ pc' = "done"
            /\ UNCHANGED <<schema, transforms, pieces>>
       ELSE /\ pieces' = shortcodeConverter(Converted)
            /\ schema' = getBlockContentSchema(transforms)
            /\ transforms' = TransformsAfter(transforms)
            /\ pc' = "piece"
            /\ UNCHANGED result
    /\ UNCHANGED <<HTML, inline, again, calls, tagName, engineVars, mode, plainText,
                   canUserUseUnfilteredHTML, blocks>>

\* The flatMap callback for a piece that is a block already.
PassBlock ==
    /\ pc = "piece"
    /\ pieces # <<>>
    /\ Head(pieces).kind = "block"
    /\ blocks' = Append(blocks, Head(pieces).value)
    /\ pieces' = Tail(pieces)
    /\ UNCHANGED <<pc, HTML, schema, inline, result, again, transforms, calls,
                   tagName, engineVars, mode, plainText, canUserUseUnfilteredHTML>>

\* The flatMap callback for a string, up to the call of deepFilterHTML.
FilterPiece ==
    /\ pc = "piece"
    /\ pieces # <<>>
    /\ Head(pieces).kind = "string"
    /\ filters' = IF ~canUserUseUnfilteredHTML THEN <<"iframeFilter">> \o PieceFilters
                  ELSE PieceFilters
    /\ doc' = createHTMLDocument(Head(pieces).value)
    /\ stack' = <<Frame(doc'[Body].kids)>>
    /\ visits' = <<>>
    /\ pc' = "filter"
    /\ UNCHANGED <<HTML, schema, inline, result, again, transforms, calls, tagName,
                   handlerVars>>

\* The piece as removeInvalidHTML returns it.
Sanitized == removeInvalidHTML(result.value, Spread(schema, getPhrasingContentSchema), FALSE)
\* Array.from( doc.body.children ) of the normalised piece.
TopLevelElements == children(normaliseBlocks(Sanitized.value))

\* The flatMap callback from the return of deepFilterHTML on: the piece is
\* sanitized and normalised, and each top-level element becomes a block.  It
\* throws if removeInvalidHTML throws or find returns undefined.
Dispatch ==
    /\ pc = "filtered"
    /\ pieces # <<>>
    /\ IF Sanitized = TypeError
       THEN /\ result' = TypeError
            /\ pc' = "done"
            /\ UNCHANGED <<pieces, blocks>>
       ELSE IF \E i \in 1..Len(TopLevelElements) : find(transforms, TopLevelElements[i]) = 0
       THEN /\ result' = TypeError
            /\ pc' = "done"
            /\ UNCHANGED <<pieces, blocks>>
       ELSE /\ blocks' = blocks \o [i \in 1..Len(TopLevelElements) |->
                                       BlockFor(transforms, TopLevelElements[i])]
            /\ pieces' = Tail(pieces)
            /\ pc' = "piece"
            /\ UNCHANGED result
    /\ UNCHANGED <<HTML, schema, inline, again, transforms, calls, tagName,
                   engineVars, mode, plainText, canUserUseUnfilteredHTML>>

\* flatMap returns the blocks.
Flatten ==
    /\ pc = "piece"
    /\ pieces = <<>>
    /\ result' = Returned("blocks", blocks)
    /\ pc' = "done"
    /\ UNCHANGED <<HTML, schema, inline, again, transforms, calls, tagName,
                   engineVars, handlerVars>>

RawLeaves ==
    {Text(<<"a">>), Shortcode, Marker, Element("meta", {"charset"}, <<>>, <<>>),
     Element("iframe", {"src"}, <<>>, <<>>), Element("img", {"src"}, <<>>, <<>>)}
RawShells == {Element("p", {}, <<>>, <<>>), Element("strong", {}, <<>>, <<>>)}

\* The HTML handed to rawHandler; a shortcode stands at the top level.
RawHTML ==
    {f \in Fragments(MaxRawNodes, RawLeaves, RawShells) :
        \A i \in 1..Len(f) : Shortcode \notin Descendants(f[i])}

\* The registries rawHandler is called under.
RawRegistries ==
    {<<CoreParagraph>>, <<CoreImage, CoreGallery, CoreParagraph>>,
     <<CoreEmbed, CoreParagraph>>, <<CoreHtml, CoreImage>>}

Init ==
    /\ pc = "start"
    /\ plainText \in PlainTexts
    /\ HTML \in IF plainText = <<>> THEN RawHTML
                ELSE {<<>>, <<Text(<<"a">>)>>, <<Element("p", {}, <<>>, <<Text(<<"a">>)>>)>>}
    /\ mode \in {"AUTO", "INLINE", "BLOCKS"}
    /\ canUserUseUnfilteredHTML \in BOOLEAN
    /\ transforms \in RawRegistries
    /\ tagName = ""
    /\ schema = {}
    /\ inline = FALSE
    /\ result = NoResult
    /\ again = NoResult
    /\ calls = 0
    /\ pieces = <<>>
    /\ blocks = <<>>
    /\ EngineIdle

Next ==
    \/ RawHandler
    \/ PassBlock
    \/ FilterPiece
    \/ Descend
    \/ ApplyFilter
    \/ NextNode
    \/ Return
    \/ Dispatch
    \/ Flatten

Spec == Init /\ [][Next]_vars

(***************************************************************************)
(* Claims about rawHandler                                                 *)
(***************************************************************************)
\* C4: in block mode the dispatch of a piece that has been filtered, sanitized
\* and normalised never throws and drops nothing: every top-level element
\* becomes one block, made by the first transform in registration order whose
\* isMatch accepts it, and a block all the same if no transform accepts it.
C4_DispatchNeverThrows ==
    [][pc = "filtered" /\ pieces # <<>> /\ Sanitized # TypeError =>
          /\ pc' = "piece"
          /\ Len(blocks') = Len(blocks) + Len(TopLevelElements)
          /\ \A i \in 1..Len(TopLevelElements) :
                /\ blocks'[Len(blocks) + i].node = TopLevelElements[i]
                /\ \A j \in 1..Len(transforms) :
                      /\ isMatch(transforms[j], TopLevelElements[i])
                      /\ \A k \in 1..(j - 1) : ~isMatch(transforms[k], TopLevelElements[i])
                      => blocks'[Len(blocks) + i].blockName = transforms[j].blockName
    ]_vars

\* The Markdown step forces inline: the plain text was converted, it has no
\* newline, it does not start with <p>, and the converted HTML starts with <p>.
MarkdownForcesInline ==
    /\ plainText # <<>>
    /\ Stripped = <<>> \/ isPlain(Stripped)
    /\ "\n" \notin Range(plainText)
    /\ plainText[1] # "<p>"
    /\ convertMarkdown(plainText) # <<>>
    /\ convertMarkdown(plainText)[1] = Element("p", {}, <<>>, convertMarkdown(plainText)[1].kids)

\* C8: the kind of value rawHandler returns is fixed by the mode decision: a
\* string with mode INLINE, a sequence of blocks with mode BLOCKS, and with
\* mode AUTO a string exactly when the HTML has no block marker and either the
\* Markdown step forced inline or no shortcode was matched and
\* isInlineContent( HTML, tagName ) holds.
C8_KindFixedByMode ==
    pc = "done" =>
        result.kind =
            CASE mode = "INLINE" -> "string"
              [] mode = "BLOCKS" -> "blocks"
              [] OTHER ->
                    IF /\ ~hasMarker(Stripped)
                       /\ \/ MarkdownForcesInline
                          \/ ~hasShortcodes /\ isInlineContent(Converted, tagName)
                    THEN "string" ELSE "blocks"

\* C10: the iframe filter is the first filter of a piece exactly when
\* canUserUseUnfilteredHTML is false, and then no iframe element is left in
\* the piece that deepFilterHTML returns to the sanitizer.
C10_NoIframeLeft ==
    /\ pc \in {"filter", "filtered"} /\ pieces # <<>> =>
          (filters[1] = "iframeFilter" <=> ~canUserUseUnfilteredHTML)
    /\ pc = "filtered" /\ pieces # <<>> /\ ~canUserUseUnfilteredHTML =>
          \A node \in Nodes(result.value) : node.tag # "iframe"

(***************************************************************************)
(* Claims about the output of the sanitizer                                *)
(***************************************************************************)
\* The key a node is looked up by: the text sentinel for text, else the tag.
KeyOf(node) == IF nodeType(node) = TEXT_NODE THEN "3" ELSE node.tag

\* Every node of the list has its key in the schema, the child nodes of each
\* element conform to the children schema of its entry, and an element whose
\* entry has no children field has no child nodes.
RECURSIVE Conforms(_, _)
Conforms(nodeList, sch) ==
    \A i \in 1..Len(nodeList) :
        /\ hasOwnProperty(sch, KeyOf(nodeList[i]))
        /\ nodeType(nodeList[i]) = ELEMENT_NODE =>
              IF Get(sch, nodeList[i].tag).hasChildren
              THEN Conforms(nodeList[i].kids, Children(Get(sch, nodeList[i].tag)))
              ELSE nodeList[i].kids = <<>>

\* The same, but for the br elements that inline mode inserts where it
\* unwraps: a bare br is let through at every level when inl is true.
RECURSIVE ConformsButBreaks(_, _, _)
ConformsButBreaks(nodeList, sch, inl) ==
    \A i \in 1..Len(nodeList) :
        \/ inl /\ nodeList[i] = Element("br", {}, <<>>, <<>>)
        \/ /\ hasOwnProperty(sch, KeyOf(nodeList[i]))
           /\ nodeType(nodeList[i]) = ELEMENT_NODE =>
                 IF Get(sch, nodeList[i].tag).hasChildren
                 THEN ConformsButBreaks(nodeList[i].kids,
                                        Children(Get(sch, nodeList[i].tag)), inl)
                 ELSE nodeList[i].kids = <<>>

\* C11 as written: when the sanitizer has finished without error, its output
\* conforms to the nesting of the schema.
C11_OutputConforms ==
    pc = "cleaned" /\ result.kind = "string" => Conforms(result.value, schema)

\* C11 amended: when the sanitizer has finished without error, its output
\* conforms to the nesting of the schema, except that in inline mode it may
\* hold, at any level, the br elements inserted after unwrapped elements.
C11_OutputConformsButBreaks ==
    pc = "cleaned" /\ result.kind = "string" =>
        ConformsButBreaks(result.value, schema, inline)

\* The sanitizer has changed the fragment and left an element with child
\* nodes in it.
C11_Witness ==
    /\ pc = "cleaned"
    /\ result.kind = "string"
    /\ result.value # HTML
    /\ \E node \in Nodes(result.value) : node.kids # <<>>

\* Every element of the list that the schema has an entry for, with children
\* and a non-empty require list, has a descendant matching the list; so have
\* the elements below it, each under the children schema of its parent.
RECURSIVE RequireHolds(_, _)
RequireHolds(nodeList, sch) ==
    \A i \in 1..Len(nodeList) :
        nodeType(nodeList[i]) = ELEMENT_NODE /\ hasOwnProperty(sch, nodeList[i].tag) =>
            LET entry == Get(sch, nodeList[i].tag)
            IN  entry.hasChildren =>
                    /\ entry.require # <<>> => querySelector(nodeList[i], entry.require)
                    /\ RequireHolds(nodeList[i].kids, Children(entry))

\* C12: in the output of the sanitizer every surviving element whose entry
\* declares children and a non-empty require list has a descendant matching
\* one of its require selectors.
C12_SurvivorsMeetRequire ==
    pc = "cleaned" /\ result.kind = "string" => RequireHolds(result.value, schema)

(***************************************************************************)
(* Claim about the input of getBlockContentSchema                          *)
(***************************************************************************)
\* C14: a call of getBlockContentSchema leaves the schema of every transform
\* as it was (entries, attribute lists, require lists and children, the lists
\* read as sets), and a second call over the same transforms returns a schema
\* equal to that of the first.
C14_InputUnchanged ==
    [][calls' = calls + 1 =>
          /\ \A i \in 1..Len(transforms) :
                Allowances(transforms'[i].schema) = Allowances(transforms[i].schema)
          /\ calls = 1 => Allowances(result'.value) = Allowances(result.value)
    ]_vars

(***************************************************************************)
(* deepFilterHTML with filters that take nodes out of the document         *)
(***************************************************************************)
\* Most nodes in a fragment handed to deepFilterHTML with these filters.
MaxDeepNodes == 3

DeepLeaves == {Text(<<"a">>), Element("img", {}, <<>>, <<>>)}
DeepShells == {Element("p", {}, <<>>, <<>>), Element("strong", {}, <<>>, <<>>)}

\* The filter lists: each filter alone, and in pairs in either order.
DeepFilters ==
    {<<"unwrapper">>, <<"parentRemover">>,
     <<"unwrapper", "parentRemover">>, <<"parentRemover", "unwrapper">>,
     <<"unwrapper", "blockquoteNormaliser">>, <<"parentRemover", "blockquoteNormaliser">>}

InitDeep ==
    /\ pc = "filter"
    /\ HTML \in Fragments(MaxDeepNodes, DeepLeaves, DeepShells)
    /\ schema = {}
    /\ filters \in DeepFilters
    /\ doc = createHTMLDocument(HTML)
    /\ stack = <<Frame(doc[Body].kids)>>
    /\ visits = <<>>
    /\ inline = FALSE
    /\ result = NoResult
    /\ again = NoResult
    /\ transforms = <<>>
    /\ calls = 0
    /\ tagName = ""
    /\ HandlerIdle

NextDeep == Descend \/ ApplyFilter \/ NextNode \/ Return

SpecDeep == InitDeep /\ [][NextDeep]_vars

(***************************************************************************)
(* Claim about the order of the filter turns                               *)
(***************************************************************************)
\* The entry is a turn of a filter on a node.
IsTurn(visit) == visit.kind \in {"applied", "skipped"}

\* The turns on a node come after the node was reached, and between the two
\* every filter has had its turn on every node of the child list the node had
\* when it was reached.
ChildrenFirst ==
    \A b \in 1..Len(visits) :
        IsTurn(visits[b]) =>
            \E a \in 1..(b - 1) :
                /\ visits[a].kind = "reached"
                /\ visits[a].node = visits[b].node
                /\ \A k \in Range(visits[a].kids) :
                      \A f \in 1..Len(filters) :
                          \E c \in (a + 1)..(b - 1) :
                              /\ IsTurn(visits[c])
                              /\ visits[c].node = k
                              /\ visits[c].filter = f

\* The turns on a node are those of the first, second, ... filter, in that
\* order, each once.
InListOrder ==
    \A b \in 1..Len(visits) :
        IsTurn(visits[b]) =>
            visits[b].filter =
                1 + Cardinality({a \in 1..(b - 1) :
                                    IsTurn(visits[a]) /\ visits[a].node = visits[b].node})

\* A filter is applied only to a node that doc contains, and skipped only for
\* a node that it does not contain.
OnlyAttached ==
    \A b \in 1..Len(visits) :
        IsTurn(visits[b]) => (visits[b].kind = "applied" <=> visits[b].attached)

\* C13: for every node, the turns of all filters on the nodes of its child
\* list (as it was when the node was reached) are over before the first filter
\* is applied to the node; the filters have their turns on a node in list
\* order; a filter is invoked only on a node that doc contains at that moment,
\* and skipped without error once the node has been detached.
C13_InvocationDiscipline ==
    /\ ChildrenFirst
    /\ InListOrder
    /\ OnlyAttached
    /\ result # TypeError

\* A filter took the parent of a node out of the document: the next filter was
\* skipped for the node, and every filter for the parent.
C13_Witness ==
    /\ pc = "filtered"
    /\ \E a, b, c \in 1..Len(visits) :
          /\ a < b /\ b < c
          /\ visits[a].kind = "applied" /\ visits[a].filter = 1
          /\ visits[b].kind = "skipped" /\ visits[b].filter = 2
          /\ visits[b].node = visits[a].node
          /\ visits[c].kind = "skipped" /\ visits[c].filter = 1
          /\ visits[c].node = InitialDoc[visits[a].node].parent

====
